---- MODULE Spec2Model ----
(***************************************************************************)
(* State-machine model of etl_extract_validate_export.py: one batch run of *)
(* main() (configuration, output-directory write test, engine, quality     *)
(* checks, view probes, extraction, dual-format export), started again any *)
(* number of times against the same output directory.                      *)
(*                                                                         *)
(* DataFrames are represented by their dictionary key only.  A file is     *)
(* "absent", "old" (left by an earlier run), "new" (written completely by  *)
(* the current run) or "new_partial" (opened for writing by the current    *)
(* run, whose write failed).                                               *)
(***************************************************************************)
EXTENDS Integers, Sequences, FiniteSets, TLC

VARIABLES
    pc,             \* position of main()
    env,            \* process environment after load_dotenv()
    cfg,            \* DBConfig built by main(), <<>> before
    log,            \* I/O operations attempted by the current run, in order
    check_results,  \* run_checks: counts in the order of the checks dict
    exists,         \* values returned by view_exists, in probe order
    queries,        \* extract: keys of the queries dict, in insertion order
    dfs,            \* extract: keys of the dfs dict, in insertion order
    idx,            \* number of entries the current export loop has written
    files,          \* output directory: file -> state
    files0,         \* output directory as the current run found it
    dirs,           \* directories that exist
    failure         \* exception that ended the run, "none" otherwise

vars == <<pc, env, cfg, log, check_results, exists, queries, dfs, idx,
          files, files0, dirs, failure>>

-----------------------------------------------------------------------------
(* Fixed names of the program *)

Checks == <<"bad_total_rows", "orphan_items", "negative_money_rows",
            "bad_line_total_rows">>

Mandatory == <<"dim_date", "dim_customer", "dim_product", "fact_order",
               "fact_order_item", "fact_login">>

Views == <<"vw_monthly_kpis", "vw_monthly_mau", "vw_customer_metrics">>

Range(s) == {s[i] : i \in 1..Len(s)}

TestFile == <<"test", "_write_test.txt">>

CsvFile(name) == <<"csv", name>>

ParquetFile(name) == <<"parquet", name>>

TableNames == Range(Mandatory) \cup Range(Views)

TableFiles ==
    {CsvFile(n) : n \in TableNames} \cup {ParquetFile(n) : n \in TableNames}

AllFiles == {TestFile} \cup TableFiles

-----------------------------------------------------------------------------
(* Configuration *)

Digits == {"0", "1", "2", "3", "4", "5", "6", "7", "8", "9"}

DigitVal(c) ==
    CASE c = "0" -> 0 [] c = "1" -> 1 [] c = "2" -> 2 [] c = "3" -> 3
      [] c = "4" -> 4 [] c = "5" -> 5 [] c = "6" -> 6 [] c = "7" -> 7
      [] c = "8" -> 8 [] c = "9" -> 9

\* int(s) succeeds: s is a non-empty string of decimal digits (signs,
\* blanks and underscores, which int also accepts, are not in the alphabet
\* of Envs).
IsInt(s) == Len(s) > 0 /\ \A i \in 1..Len(s) : s[i] \in Digits

RECURSIVE ParseInt(_)
ParseInt(s) ==
    IF Len(s) = 0 THEN 0
    ELSE 10 * ParseInt(SubSeq(s, 1, Len(s) - 1)) + DigitVal(s[Len(s)])

DefaultPort == <<"3", "3", "0", "6">>

\* os.getenv(key, default)
Getenv(e, key, default) == IF key \in DOMAIN e THEN e[key] ELSE default

\* Environments a run can start in (DB_PORT is a string of characters).
Envs ==
    { [DB_PASSWORD |-> "secret"],
      [DB_PASSWORD |-> "secret", DB_PORT |-> <<"a", "b", "c">>],
      [DB_PASSWORD |-> "", DB_PORT |-> <<"3", "3", "0", "7">>],
      [DB_PORT |-> <<>>],
      [DB_HOST |-> "db"] }

-----------------------------------------------------------------------------
(* Environment outcomes *)

\* Scalar returned by a COUNT query: <<>> is None, <<n>> the number n.
Scalars == {<<>>, <<0>>, <<2>>}

\* int(scalar or 0)
ToCount(s) == IF s = <<>> THEN 0 ELSE s[1]

\* A file write: completed, refused at open, or failed after the file was
\* opened for writing (truncated, partly written).
WriteOutcomes == {"ok", "denied", "torn"}

Written(fs, f, r) ==
    CASE r = "ok"     -> [fs EXCEPT ![f] = "new"]
      [] r = "torn"   -> [fs EXCEPT ![f] = "new_partial"]
      [] r = "denied" -> fs

DbOutcomes == {"ok", "connect_error", "query_error"}

Event(op, a, b) == <<op, a, b>>

Fail(reason) ==
    /\ pc' = "failed"
    /\ failure' = reason

-----------------------------------------------------------------------------
Init ==
    /\ pc = "load_dotenv"
    /\ env = <<>>
    /\ cfg = <<>>
    /\ log = <<>>
    /\ check_results = <<>>
    /\ exists = <<>>
    /\ queries = <<>>
    /\ dfs = <<>>
    /\ idx = 0
    /\ files = [f \in AllFiles |-> "absent"]
    /\ files0 = [f \in AllFiles |-> "absent"]
    /\ dirs = {}
    /\ failure = "none"

\* main, line 223: load_dotenv()
LoadDotenv ==
    /\ pc = "load_dotenv"
    /\ \E e \in Envs : env' = e
    /\ log' = Append(log, Event("dotenv", ".env", ""))
    /\ pc' = "config"
    /\ UNCHANGED <<cfg, check_results, exists, queries, dfs, idx, files,
                   files0, dirs, failure>>

\* ResolveConfig, were a non-numeric DB_PORT replaced by the default port
\* instead of raising.
ResolveConfigLenient ==
    /\ pc = "config"
    /\ LET p == Getenv(env, "DB_PORT", DefaultPort) IN
         cfg' = [port |-> IF IsInt(p) THEN ParseInt(p)
                                  ELSE ParseInt(DefaultPort),
                 password |-> Getenv(env, "DB_PASSWORD", "")]
    /\ log' = Append(log, Event("print", "CONFIG", ""))
    /\ pc' = "check_password"
    /\ UNCHANGED <<env, check_results, exists, queries, dfs, idx, files,
                   files0, dirs, failure>>

\* main, lines 226-238: DBConfig(...) with int(DB_PORT), then the CONFIG prints
ResolveConfig ==
    /\ pc = "config"
    /\ LET p == Getenv(env, "DB_PORT", DefaultPort) IN
         IF IsInt(p)
         THEN /\ cfg' = [port |-> ParseInt(p),
                         password |-> Getenv(env, "DB_PASSWORD", "")]
              /\ log' = Append(log, Event("print", "CONFIG", ""))
              /\ pc' = "check_password"
              /\ UNCHANGED failure
         ELSE /\ Fail("bad_port")
              /\ UNCHANGED <<cfg, log>>
    /\ UNCHANGED <<env, check_results, exists, queries, dfs, idx, files,
                   files0, dirs>>

\* CheckPassword without the check of line 241.
CheckPasswordSkipped ==
    /\ pc = "check_password"
    /\ log' = Append(log, Event("print", "OUTPUT_DIR", ""))
    /\ pc' = "mkdir_out"
    /\ UNCHANGED <<env, cfg, check_results, exists, queries, dfs, idx, files,
                   files0, dirs, failure>>

\* main, lines 241-248: the empty-password check, then the OUTPUT_DIR prints
CheckPassword ==
    /\ pc = "check_password"
    /\ IF cfg.password = ""
       THEN /\ Fail("empty_password")
            /\ UNCHANGED log
       ELSE /\ log' = Append(log, Event("print", "OUTPUT_DIR", ""))
            /\ pc' = "mkdir_out"
            /\ UNCHANGED failure
    /\ UNCHANGED <<env, cfg, check_results, exists, queries, dfs, idx, files,
                   files0, dirs>>

\* main, lines 250-251: pathlib.Path(abs_out).mkdir(parents=True, exist_ok=True)
MkdirOut ==
    /\ pc = "mkdir_out"
    /\ log' = Append(log, Event("mkdir", "out", ""))
    /\ \E ok \in BOOLEAN :
         IF ok
         THEN /\ dirs' = dirs \cup {"out"}
              /\ pc' = "write_test"
              /\ UNCHANGED failure
         ELSE /\ Fail("mkdir_out")
              /\ UNCHANGED dirs
    /\ UNCHANGED <<env, cfg, check_results, exists, queries, dfs, idx, files,
                   files0>>

\* WriteTest, were a failed write test only reported and the run continued.
WriteTestUnchecked ==
    /\ pc = "write_test"
    /\ \E r \in WriteOutcomes :
         /\ files' = Written(files, TestFile, r)
         /\ log' = log \o <<Event("write", TestFile[1], TestFile[2]),
                            Event("print", "WRITE TEST", "")>>
    /\ pc' = "get_engine"
    /\ UNCHANGED <<env, cfg, check_results, exists, queries, dfs, idx, files0,
                   dirs, failure>>

\* main, lines 254-258: open(test_path, "w"), write, then the WRITE TEST OK
\* print
WriteTest ==
    /\ pc = "write_test"
    /\ \E r \in WriteOutcomes :
         /\ files' = Written(files, TestFile, r)
         /\ IF r = "ok"
            THEN /\ log' = log \o <<Event("write", TestFile[1], TestFile[2]),
                                    Event("print", "WRITE TEST OK", "")>>
                 /\ pc' = "get_engine"
                 /\ UNCHANGED failure
            ELSE /\ log' = Append(log, Event("write", TestFile[1], TestFile[2]))
                 /\ Fail("write_test")
    /\ UNCHANGED <<env, cfg, check_results, exists, queries, dfs, idx, files0,
                   dirs>>

\* main, lines 261-262 and get_engine, lines 63-64: create_engine opens no
\* connection
GetEngine ==
    /\ pc = "get_engine"
    /\ log' = log \o <<Event("engine", "create", ""),
                       Event("print", "ENGINE CREATED", "")>>
    /\ pc' = "run_checks"
    /\ UNCHANGED <<env, cfg, check_results, exists, queries, dfs, idx, files,
                   files0, dirs, failure>>

\* run_checks, lines 110-111: engine.connect()
ChecksConnect ==
    /\ pc = "run_checks"
    /\ log' = Append(log, Event("connect", "run_checks", ""))
    /\ \E ok \in BOOLEAN :
         IF ok
         THEN /\ pc' = "check_query"
              /\ UNCHANGED failure
         ELSE Fail("connect_error")
    /\ UNCHANGED <<env, cfg, check_results, exists, queries, dfs, idx, files,
                   files0, dirs>>

\* run_checks, lines 112-114: one iteration of the loop over checks.items()
CheckQuery ==
    /\ pc = "check_query"
    /\ LET name == Checks[Len(check_results) + 1] IN
         /\ log' = Append(log, Event("query", "check", name))
         /\ \/ \E s \in Scalars :
                 /\ check_results' = Append(check_results, ToCount(s))
                 /\ pc' = IF Len(check_results) + 1 = Len(Checks)
                          THEN "checks_done" ELSE "check_query"
                 /\ UNCHANGED failure
            \/ /\ Fail("check_query_error")
               /\ UNCHANGED check_results
    /\ UNCHANGED <<env, cfg, exists, queries, dfs, idx, files, files0, dirs>>

\* ChecksDone, were a nonzero count treated as fatal (a quality gate).
ChecksDoneGated ==
    /\ pc = "checks_done"
    /\ log' = Append(log, Event("print", "DATA QUALITY CHECKS", ""))
    /\ IF \E i \in 1..Len(check_results) : check_results[i] > 0
       THEN /\ Fail("quality_gate")
            /\ UNCHANGED queries
       ELSE /\ queries' = Mandatory
            /\ pc' = "probe"
            /\ UNCHANGED failure
    /\ UNCHANGED <<env, cfg, check_results, exists, dfs, idx, files, files0,
                   dirs>>

\* main, lines 265-269: run_checks has returned; print the counts, call
\* extract, which builds the mandatory queries dict (lines 153-160)
ChecksDone ==
    /\ pc = "checks_done"
    /\ log' = Append(log, Event("print", "DATA QUALITY CHECKS", ""))
    /\ queries' = Mandatory
    /\ pc' = "probe"
    /\ UNCHANGED <<env, cfg, check_results, exists, dfs, idx, files, files0,
                   dirs, failure>>

\* Probe, were the view's query added whatever view_exists returned.
ProbeAlways ==
    /\ pc = "probe"
    /\ LET v == Views[Len(exists) + 1] IN
         \E s \in Scalars :
           /\ log' = log \o <<Event("connect", "view_exists", v),
                              Event("query", "probe", v)>>
           /\ exists' = Append(exists, ToCount(s) > 0)
           /\ queries' = Append(queries, v)
           /\ pc' = IF Len(exists) + 1 = Len(Views) THEN "read_sql" ELSE "probe"
    /\ UNCHANGED <<env, cfg, check_results, dfs, idx, files, files0, dirs,
                   failure>>

\* Probe, were a found view's query put in front of the mandatory ones.
ProbePrepend ==
    /\ pc = "probe"
    /\ LET v == Views[Len(exists) + 1] IN
         \E s \in Scalars :
           /\ log' = log \o <<Event("connect", "view_exists", v),
                              Event("query", "probe", v)>>
           /\ exists' = Append(exists, ToCount(s) > 0)
           /\ queries' = IF ToCount(s) > 0 THEN <<v>> \o queries ELSE queries
           /\ pc' = IF Len(exists) + 1 = Len(Views) THEN "read_sql" ELSE "probe"
    /\ UNCHANGED <<env, cfg, check_results, dfs, idx, files, files0, dirs,
                   failure>>

\* extract, lines 163-182 with view_exists, lines 130-136: probe the next
\* optional view and add its query when the view exists
Probe ==
    /\ pc = "probe"
    /\ LET v == Views[Len(exists) + 1] IN
         \E o \in DbOutcomes :
           CASE o = "connect_error" ->
                  /\ log' = Append(log, Event("connect", "view_exists", v))
                  /\ Fail("connect_error")
                  /\ UNCHANGED <<exists, queries>>
             [] o = "query_error" ->
                  /\ log' = log \o <<Event("connect", "view_exists", v),
                                     Event("query", "probe", v)>>
                  /\ Fail("probe_query_error")
                  /\ UNCHANGED <<exists, queries>>
             [] o = "ok" ->
                  \E s \in Scalars :
                    /\ log' = log \o <<Event("connect", "view_exists", v),
                                       Event("query", "probe", v)>>
                    /\ exists' = Append(exists, ToCount(s) > 0)
                    /\ queries' = IF ToCount(s) > 0 THEN Append(queries, v)
                                  ELSE queries
                    /\ pc' = IF Len(exists) + 1 = Len(Views)
                             THEN "read_sql" ELSE "probe"
                    /\ UNCHANGED failure
    /\ UNCHANGED <<env, cfg, check_results, dfs, idx, files, files0, dirs>>

\* ReadSql, were each table written to its CSV file as soon as it is read.
ReadSqlStreaming ==
    /\ pc = "read_sql"
    /\ LET name == queries[Len(dfs) + 1] IN
         \E ok \in BOOLEAN :
           IF ok
           THEN /\ log' = log \o <<Event("connect", "read_sql", name),
                                   Event("query", "select", name),
                                   Event("write", "csv", name)>>
                /\ files' = Written(files, CsvFile(name), "ok")
                /\ dfs' = Append(dfs, name)
                /\ pc' = IF Len(dfs) + 1 = Len(queries)
                         THEN "extracted" ELSE "read_sql"
                /\ UNCHANGED failure
           ELSE /\ log' = log \o <<Event("connect", "read_sql", name),
                                   Event("query", "select", name)>>
                /\ Fail("select_query_error")
                /\ UNCHANGED <<dfs, files>>
    /\ UNCHANGED <<env, cfg, check_results, exists, queries, idx, files0,
                   dirs>>

\* extract, lines 185-187: one iteration of the loop over queries.items()
ReadSql ==
    /\ pc = "read_sql"
    /\ LET name == queries[Len(dfs) + 1] IN
         \E o \in DbOutcomes :
           CASE o = "connect_error" ->
                  /\ log' = Append(log, Event("connect", "read_sql", name))
                  /\ Fail("connect_error")
                  /\ UNCHANGED dfs
             [] o = "query_error" ->
                  /\ log' = log \o <<Event("connect", "read_sql", name),
                                     Event("query", "select", name)>>
                  /\ Fail("select_query_error")
                  /\ UNCHANGED dfs
             [] o = "ok" ->
                  /\ log' = log \o <<Event("connect", "read_sql", name),
                                     Event("query", "select", name)>>
                  /\ dfs' = Append(dfs, name)
                  /\ pc' = IF Len(dfs) + 1 = Len(queries)
                           THEN "extracted" ELSE "read_sql"
                  /\ UNCHANGED failure
    /\ UNCHANGED <<env, cfg, check_results, exists, queries, idx, files,
                   files0, dirs>>

\* main, lines 269-273 and write_outputs, line 200: extract has returned;
\* print the keys, call write_outputs, os.makedirs(out_dir, exist_ok=True)
\* on the directory the write test has just written to
ExtractDone ==
    /\ pc = "extracted"
    /\ log' = log \o <<Event("print", "EXTRACTED TABLES", ""),
                       Event("mkdir", "out", "")>>
    /\ dirs' = dirs \cup {"out"}
    /\ idx' = 0
    /\ pc' = "write_csv"
    /\ UNCHANGED <<env, cfg, check_results, exists, queries, dfs, files,
                   files0, failure>>

\* WriteCsv, were the optional views left out of the CSV pass.
WriteCsvTablesOnly ==
    /\ pc = "write_csv"
    /\ LET name == dfs[idx + 1] IN
         /\ log' = IF name \in Range(Views) THEN log
                   ELSE Append(log, Event("write", "csv", name))
         /\ files' = IF name \in Range(Views) THEN files
                     ELSE Written(files, CsvFile(name), "ok")
    /\ idx' = idx + 1
    /\ pc' = IF idx + 1 = Len(dfs) THEN "mkdir_parquet" ELSE "write_csv"
    /\ UNCHANGED <<env, cfg, check_results, exists, queries, dfs, files0,
                   dirs, failure>>

\* WriteCsv, were both formats written in the same loop iteration.
WriteCsvBothFormats ==
    /\ pc = "write_csv"
    /\ LET name == dfs[idx + 1] IN
         /\ log' = log \o <<Event("write", "csv", name),
                            Event("write", "parquet", name)>>
         /\ files' = Written(Written(files, CsvFile(name), "ok"),
                             ParquetFile(name), "ok")
    /\ idx' = idx + 1
    /\ pc' = IF idx + 1 = Len(dfs) THEN "mkdir_parquet" ELSE "write_csv"
    /\ UNCHANGED <<env, cfg, check_results, exists, queries, dfs, files0,
                   dirs, failure>>

\* write_outputs, lines 202-203: one iteration of the to_csv loop
WriteCsv ==
    /\ pc = "write_csv"
    /\ LET name == dfs[idx + 1] IN
         /\ log' = Append(log, Event("write", "csv", name))
         /\ \E r \in WriteOutcomes :
              /\ files' = Written(files, CsvFile(name), r)
              /\ IF r = "ok"
                 THEN /\ idx' = idx + 1
                      /\ pc' = IF idx + 1 = Len(dfs)
                               THEN "mkdir_parquet" ELSE "write_csv"
                      /\ UNCHANGED failure
                 ELSE /\ Fail("export_error")
                      /\ UNCHANGED idx
    /\ UNCHANGED <<env, cfg, check_results, exists, queries, dfs, files0,
                   dirs>>

\* write_outputs, lines 205-206: os.makedirs(parquet_dir, exist_ok=True)
MakeParquetDir ==
    /\ pc = "mkdir_parquet"
    /\ log' = Append(log, Event("mkdir", "parquet", ""))
    /\ \E ok \in BOOLEAN :
         IF ok
         THEN /\ dirs' = dirs \cup {"parquet"}
              /\ idx' = 0
              /\ pc' = "write_parquet"
              /\ UNCHANGED failure
         ELSE /\ Fail("export_error")
              /\ UNCHANGED <<dirs, idx>>
    /\ UNCHANGED <<env, cfg, check_results, exists, queries, dfs, files,
                   files0>>

\* write_outputs, lines 207-208: one iteration of the to_parquet loop
WriteParquet ==
    /\ pc = "write_parquet"
    /\ LET name == dfs[idx + 1] IN
         /\ log' = Append(log, Event("write", "parquet", name))
         /\ \E r \in WriteOutcomes :
              /\ files' = Written(files, ParquetFile(name), r)
              /\ IF r = "ok"
                 THEN /\ idx' = idx + 1
                      /\ pc' = IF idx + 1 = Len(dfs)
                               THEN "export_done" ELSE "write_parquet"
                      /\ UNCHANGED failure
                 ELSE /\ Fail("export_error")
                      /\ UNCHANGED idx
    /\ UNCHANGED <<env, cfg, check_results, exists, queries, dfs, files0,
                   dirs>>

\* ExportDone, were table files that are not keys of the collection removed.
ExportDoneCleanup ==
    /\ pc = "export_done"
    /\ log' = Append(log, Event("print", "EXPORT COMPLETE", ""))
    /\ files' = [f \in AllFiles |->
                   IF f \in TableFiles /\ f[2] \notin Range(dfs)
                   THEN "absent" ELSE files[f]]
    /\ pc' = "done"
    /\ UNCHANGED <<env, cfg, check_results, exists, queries, dfs, idx, files0,
                   dirs, failure>>

\* main, lines 274-278: the closing prints
ExportDone ==
    /\ pc = "export_done"
    /\ log' = Append(log, Event("print", "EXPORT COMPLETE", ""))
    /\ pc' = "done"
    /\ UNCHANGED <<env, cfg, check_results, exists, queries, dfs, idx, files,
                   files0, dirs, failure>>

\* To the next run, every file that exists is a file of an earlier run.
Aged(fs) == [f \in AllFiles |-> IF fs[f] = "absent" THEN "absent" ELSE "old"]

\* lines 283-284: the script is started again; only the output directory
\* persists between processes
NewRun ==
    /\ pc \in {"done", "failed"}
    /\ pc' = "load_dotenv"
    /\ env' = <<>>
    /\ cfg' = <<>>
    /\ log' = <<>>
    /\ check_results' = <<>>
    /\ exists' = <<>>
    /\ queries' = <<>>
    /\ dfs' = <<>>
    /\ idx' = 0
    /\ failure' = "none"
    /\ files' = Aged(files)
    /\ files0' = Aged(files)
    /\ UNCHANGED dirs

Next ==
    \/ LoadDotenv
    \/ ResolveConfig
    \/ CheckPassword
    \/ MkdirOut
    \/ WriteTest
    \/ GetEngine
    \/ ChecksConnect
    \/ CheckQuery
    \/ ChecksDone
    \/ Probe
    \/ ReadSql
    \/ ExtractDone
    \/ WriteCsv
    \/ MakeParquetDir
    \/ WriteParquet
    \/ ExportDone
    \/ NewRun

Spec == Init /\ [][Next]_vars

-----------------------------------------------------------------------------
(* Vocabulary of the properties *)

LogIndex == 1..Len(log)

\* Positions of the log where the database is touched.
DbEvents == {i \in LogIndex : log[i][1] \in {"engine", "connect", "query"}}

\* Positions of the log where a table file is written.
TableWrites ==
    {i \in LogIndex : log[i][1] = "write" /\ log[i][2] \in {"csv", "parquet"}}

ParquetSteps ==
    {i \in LogIndex : \/ log[i][1] = "write" /\ log[i][2] = "parquet"
                      \/ log[i][1] = "mkdir" /\ log[i][2] = "parquet"}

WritesOf(kind, name) == {i \in LogIndex : log[i] = Event("write", kind, name)}

RECURSIVE Found(_, _)
\* The views among the first n whose probe answered TRUE, in probe order.
Found(ex, n) ==
    IF n = 0 THEN <<>>
    ELSE Found(ex, n - 1) \o (IF ex[n] THEN <<Views[n]>> ELSE <<>>)

\* The collection the probe answers ex call for.
ExpectedKeys(ex) == Mandatory \o Found(ex, Len(ex))

Unchanged(f) == files[f] = files0[f]

DbFailures == {"connect_error", "check_query_error", "probe_query_error",
               "select_query_error"}

ExportPcs ==
    {"write_csv", "mkdir_parquet", "write_parquet", "export_done", "done"}

PasswordEmpty == Getenv(env, "DB_PASSWORD", "") = ""

PortInvalid == ~IsInt(Getenv(env, "DB_PORT", DefaultPort))

IsExtractQuery(e) == e[1] = "query" /\ e[2] \in {"probe", "select"}

ExtractQueries == SelectSeq(log, IsExtractQuery)

-----------------------------------------------------------------------------
\* C1: a run ended by a failed connection, check query, view probe or
\* extraction query has written no table file: every <name>.csv and
\* parquet/<name>.parquet is as the run found it, and a table file is only
\* ever written once all probes and all extraction queries have returned.
NoExportAfterQueryFailure ==
    /\ (pc = "failed" /\ failure \in DbFailures) =>
          /\ \A f \in TableFiles : Unchanged(f)
          /\ TableWrites = {}
          /\ ParquetSteps = {}
    /\ TableWrites # {} =>
          /\ Len(exists) = Len(Views)
          /\ dfs = queries
          /\ pc \in ExportPcs \/ (pc = "failed" /\ failure = "export_error")

\* A query fails after earlier tables were extracted.
ExtractionFailedMidway ==
    /\ pc = "failed"
    /\ failure = "select_query_error"
    /\ Len(dfs) >= 2

\* C2: with an empty resolved DB_PASSWORD no engine is created, no
\* connection is checked out and no query is issued; the run ends in a
\* configuration error.
EmptyPasswordNoConnection ==
    PasswordEmpty =>
        /\ DbEvents = {}
        /\ pc \in {"load_dotenv", "config", "check_password", "failed"}
        /\ pc = "failed" => failure \in {"bad_port", "empty_password"}

EmptyPasswordAbort ==
    /\ pc = "failed"
    /\ failure = "empty_password"
    /\ "DB_PASSWORD" \in DOMAIN env

\* C3: whatever the four counts, once the check queries have succeeded the
\* run goes on to extraction, and a finished run has extracted and written
\* exactly what the probe answers call for, whatever the counts were.
ChecksObservational ==
    /\ [][pc = "checks_done" =>
            /\ pc' = "probe"
            /\ failure' = "none"
            /\ queries' = Mandatory
            /\ files' = files]_vars
    /\ [](pc = "done" =>
            /\ dfs = ExpectedKeys(exists)
            /\ \A f \in TableFiles : files[f] = "new" <=> f[2] \in Range(dfs))

FinishedWithFindings ==
    /\ pc = "done"
    /\ check_results = <<2, 0, 2, 2>>

\* C4 as claimed: six fixed entries, a view's entry only if its probe found
\* it, exactly six entries as soon as some probed view is absent, nine if
\* all three are present.
SixIfAnyViewAbsent ==
    pc = "extracted" =>
        /\ Range(Mandatory) \subseteq Range(dfs)
        /\ \A i \in 1..Len(Views) : Views[i] \in Range(dfs) => exists[i]
        /\ (\E i \in 1..Len(Views) : ~exists[i]) => Len(dfs) = Len(Mandatory)
        /\ (\A i \in 1..Len(Views) : exists[i]) =>
              Len(dfs) = Len(Mandatory) + Len(Views)

\* C4: the collection extract returns is the six fixed entries followed by
\* exactly the views whose probe found them: six entries plus one per view
\* present, so six when all three are absent and nine when all are present.
CollectionFollowsProbes ==
    pc \in {"extracted"} \cup ExportPcs =>
        /\ dfs = ExpectedKeys(exists)
        /\ \A i \in 1..Len(Views) : Views[i] \in Range(dfs) <=> exists[i]
        /\ Len(dfs) = Len(Mandatory)
                      + Cardinality({i \in 1..Len(Views) : exists[i]})
        /\ (\A i \in 1..Len(Views) : ~exists[i]) => Len(dfs) = Len(Mandatory)
        /\ (\A i \in 1..Len(Views) : exists[i]) =>
              Len(dfs) = Len(Mandatory) + Len(Views)

OneViewAbsent ==
    /\ pc = "extracted"
    /\ exists = <<TRUE, FALSE, TRUE>>
    /\ Len(dfs) = Len(Mandatory) + 2

\* C5: when the export has completed, each key of the collection has been
\* written exactly once as CSV and exactly once as parquet, both files are
\* complete, and no other table file was written by the run.
OneFilePerKeyAndFormat ==
    pc = "done" =>
        \A n \in TableNames :
            /\ Cardinality(WritesOf("csv", n))
                  = (IF n \in Range(dfs) THEN 1 ELSE 0)
            /\ Cardinality(WritesOf("parquet", n))
                  = (IF n \in Range(dfs) THEN 1 ELSE 0)
            /\ (n \in Range(dfs)) <=> files[CsvFile(n)] = "new"
            /\ (n \in Range(dfs)) <=> files[ParquetFile(n)] = "new"
            /\ files[CsvFile(n)] # "new_partial"
            /\ files[ParquetFile(n)] # "new_partial"

ExportedWithViews ==
    /\ pc = "done"
    /\ Len(dfs) = Len(Mandatory) + 1
    /\ "vw_monthly_mau" \in Range(dfs)

\* C6 as claimed: a configuration error is raised before any I/O at all.
ConfigErrorBeforeAnyIO ==
    (pc = "failed" /\ failure \in {"bad_port", "empty_password"}) => log = <<>>

\* C6: a configuration error is fatal and is raised before any directory
\* creation, file write or database access; the environment file has been
\* read by then, and the configuration has been printed before the
\* empty-password error (not before the port error).
ConfigErrorBeforeOutputAndDb ==
    (PortInvalid \/ PasswordEmpty) =>
        /\ pc \in {"load_dotenv", "config", "check_password", "failed"}
        /\ \A i \in LogIndex : log[i][1] \in {"dotenv", "print"}
        /\ files = files0
        /\ pc = "failed" =>
              /\ failure = (IF PortInvalid THEN "bad_port" ELSE "empty_password")
              /\ log = (IF PortInvalid
                        THEN <<Event("dotenv", ".env", "")>>
                        ELSE <<Event("dotenv", ".env", ""),
                               Event("print", "CONFIG", "")>>)

BadPortAbort ==
    /\ pc = "failed"
    /\ failure = "bad_port"
    /\ ~PasswordEmpty

\* C7: the database is touched only after the write test has succeeded in
\* this run; a run whose directory creation or write test fails has touched
\* no database; after a successful write test _write_test.txt stays in place.
WriteTestBeforeDatabase ==
    /\ DbEvents # {} =>
          /\ files[TestFile] = "new"
          /\ \E j \in LogIndex :
                /\ log[j] = Event("write", TestFile[1], TestFile[2])
                /\ \A i \in 1..j : log[i][1] \notin {"engine", "connect", "query"}
                /\ \E k \in 1..(j - 1) : log[k] = Event("mkdir", "out", "")
    /\ (pc = "failed" /\ failure \in {"mkdir_out", "write_test"}) => DbEvents = {}
    /\ pc \in {"get_engine", "done"} => files[TestFile] = "new"

QueriedAfterWriteTest ==
    /\ pc = "done"
    /\ files[TestFile] = "new"
    /\ \E i \in LogIndex : log[i][1] = "query"

\* C8 as claimed: no probe precedes a mandatory query, and each view's
\* query directly follows its own probe.
MandatoryBeforeProbes ==
    LET q == ExtractQueries IN
      /\ \A i, j \in 1..Len(q) :
            (q[i][2] = "probe" /\ q[j][2] = "select" /\ q[j][3] \in Range(Mandatory))
               => j < i
      /\ \A j \in 1..Len(q) :
            (q[j][2] = "select" /\ q[j][3] \in Range(Views))
               => (j > 1 /\ q[j - 1] = Event("query", "probe", q[j][3]))

\* C8: inside extract the three views are probed first, in their fixed
\* order; only then are the six mandatory selections run, in order, and
\* after them the selections of the views found present, in probe order.
ProbesBeforeSelections ==
    LET q == ExtractQueries
        keys == ExpectedKeys(exists)
    IN
      /\ \A i \in 1..Len(q) :
            IF i <= Len(Views)
            THEN q[i] = Event("query", "probe", Views[i])
            ELSE /\ Len(exists) = Len(Views)
                 /\ i - Len(Views) <= Len(keys)
                 /\ q[i] = Event("query", "select", keys[i - Len(Views)])
      /\ pc = "extracted" => Len(q) = Len(Views) + Len(keys)

ExtractedTwoViews ==
    /\ pc = "extracted"
    /\ exists = <<FALSE, TRUE, TRUE>>
    /\ Len(ExtractQueries) = Len(Views) + Len(Mandatory) + 2

\* C9: the parquet directory is created and parquet files are written only
\* after every CSV file of the collection is complete; whenever a write
\* fails, the files written before it in the run remain complete and at most
\* one table file, the one being written, is partial.
OnePassPerFormat ==
    /\ LET ps == ParquetSteps IN
         ps # {} =>
            LET first == CHOOSE i \in ps : \A k \in ps : i <= k IN
              \A n \in Range(dfs) :
                 /\ files[CsvFile(n)] = "new"
                 /\ \E j \in 1..(first - 1) : log[j] = Event("write", "csv", n)
    /\ LET tw == TableWrites IN
         \A i \in tw :
            (\E k \in tw : k > i) => files[<<log[i][2], log[i][3]>>] = "new"
    /\ Cardinality({f \in TableFiles : files[f] = "new_partial"}) <= 1
    /\ \A f \in TableFiles :
          files[f] = "new_partial" =>
             /\ pc = "failed"
             /\ failure = "export_error"
             /\ log[Len(log)] = Event("write", f[1], f[2])

ParquetWriteTorn ==
    /\ pc = "failed"
    /\ failure = "export_error"
    /\ files[ParquetFile("dim_product")] = "new_partial"
    /\ files[ParquetFile("dim_date")] = "new"

\* C10 as claimed: no file is deleted, only _write_test.txt and the files of
\* the run's own keys are modified, any failed run leaves unchanged every
\* table file an earlier run left, and a finished run leaves the files of a
\* view that is now absent unchanged.
FailedRunChangesNoTableFile ==
    /\ \A f \in AllFiles : files[f] = "absent" => files0[f] = "absent"
    /\ \A f \in TableFiles : ~Unchanged(f) => f[2] \in Range(dfs)
    /\ pc = "failed" =>
          \A f \in TableFiles : files0[f] = "old" => Unchanged(f)
    /\ pc = "done" =>
          \A f \in TableFiles : f[2] \notin Range(dfs) => Unchanged(f)

\* C10: no file is deleted, only _write_test.txt and the files of the run's
\* own keys are modified, a run that fails before its export starts leaves
\* every table file unchanged (one that fails during export has changed
\* files of its own keys only), and a finished run leaves the files of a
\* view that is now absent unchanged while every file of its keys is
\* rewritten.
OnlyOwnKeysModified ==
    /\ \A f \in AllFiles : files[f] = "absent" => files0[f] = "absent"
    /\ \A f \in TableFiles : ~Unchanged(f) => f[2] \in Range(dfs)
    /\ (pc = "failed" /\ failure # "export_error") =>
          \A f \in TableFiles : Unchanged(f)
    /\ pc = "done" =>
          \A f \in TableFiles :
             IF f[2] \in Range(dfs) THEN files[f] = "new" ELSE Unchanged(f)

StaleViewFilesKept ==
    /\ pc = "done"
    /\ "vw_customer_metrics" \notin Range(dfs)
    /\ files0[CsvFile("vw_customer_metrics")] = "old"
    /\ files[CsvFile("vw_customer_metrics")] = "old"
    /\ files[ParquetFile("vw_customer_metrics")] = "old"
    /\ files0[CsvFile("dim_date")] = "old"

====
